---- MODULE Spec2Model ----
(***************************************************************************)
(* The Predict view of ResQBridge (src/src/Pages/Predict.tsx): one React   *)
(* component holding five useState cells, one effect that owns the preview *)
(* object URL, the file-input change handler and the async analyse         *)
(* handler.  Every asynchronous suspension point of handleAnalyze (the     *)
(* FileReader completion, the analyzeImage completion) is one action.      *)
(*                                                                         *)
(* Optional values (null, undefined, an omitted field) are the empty       *)
(* sequence; a present value v is <<v>>.  The useState setters are         *)
(* modelled as assignments to the state cells they own.                    *)
(***************************************************************************)
EXTENDS Integers, Sequences, FiniteSets, TLC

\* ---------------------------------------------------------------- bounds
\* distinct File objects the user can pick
MaxFiles == 2
\* object URLs createObjectURL may hand out in one run
MaxUrls == 2
\* handleAnalyze calls that may be suspended at once when the handler is
\* invoked without going through the button
MaxInFlight == 2

\* ------------------------------------------------------- optional values
Null == <<>>
Some(v) == <<v>>

\* JavaScript truthiness of an optional string: null, undefined and "" are falsy
Truthy(s) == s # Null /\ s[1] # ""

\* ------------------------------------------------------------ data model
Files == 1..MaxFiles
NoFile == 0
NoUrl == 0

\* confidence in thousandths (0.87 is 870)
Confidences == {870}
Severities == {Null, Some(""), Some("high")}
Detection ==
  [class : {"collision"}, confidence : Confidences, severity : Severities]
ProcessedImages == {Null, Some(""), Some("data:image/png")}

\* what analyzeImage may resolve with
AnalyzeResult ==
  [success : BOOLEAN, accidentDetected : BOOLEAN,
   detection : {Null} \cup {Some(d) : d \in Detection},
   processedImage : ProcessedImages]

\* analyzeImage(base64) settles by resolving with any value of the declared
\* response shape, success true or false
AnalyzeImageResolves == AnalyzeResult

\* what analyzeImage may reject with: an error object whose message is
\* present, empty or missing
ApiErrors ==
  [kind : {"Error"}, message : {Null, Some(""), Some("Network Error")}]

\* what convertFileToBase64 rejects with: a bare string, not an Error
ReadError == [kind |-> "string", value |-> "Error reading file"]

ValidationMessage == "Please select an image to analyze."
GenericMessage == "Error analyzing image"

\* reader.readAsDataURL(file): the data URL of that file
DataUrl(file) == [data |-> file]

VARIABLES
  imageFile,    \* useState<File | null>: NoFile or a file
  previewUrl,   \* useState<string | null>: NoUrl or an object URL
  result,       \* useState<AnalyzeResult | null>: Null or Some(r)
  loading,      \* useState<boolean>
  error,        \* useState<string | null>: Null or Some(message)
  mounted,      \* the component is mounted
  effectUrl,    \* the url captured by the pending effect cleanup, or NoUrl
  created,      \* number of object URLs created so far (they are 1..created)
  revoked,      \* url -> number of revokeObjectURL calls on it
  inflight,     \* suspended handleAnalyze calls, oldest first
  resultFile,   \* history: the file whose analysis produced `result`
  lastDone,     \* history: Null or Some(record of the last finished call)
  lastEvent     \* history: the operation that produced this state

vars == <<imageFile, previewUrl, result, loading, error, mounted, effectUrl,
          created, revoked, inflight, resultFile, lastDone, lastEvent>>

Event(op, file) == [op |-> op, file |-> file]

Init ==
  /\ imageFile = NoFile
  /\ previewUrl = NoUrl
  /\ result = Null
  /\ loading = FALSE
  /\ error = Null
  /\ mounted = TRUE
  /\ effectUrl = NoUrl
  /\ created = 0
  /\ revoked = [u \in 1..MaxUrls |-> 0]
  /\ inflight = <<>>
  /\ resultFile = NoFile
  /\ lastDone = Null
  /\ lastEvent = Event("mount", NoFile)

\* ------------------------------------------------------ preview effect
\* an effect that returns no cleanup
EffectCleanup_none(url, rev) == rev

\* the cleanup returned by the effect: () => URL.revokeObjectURL(url)
EffectCleanup(url, rev) ==
  IF url = NoUrl THEN rev ELSE [rev EXCEPT ![url] = @ + 1]

\* useEffect(..., [imageFile]): React runs it only when the dependency
\* changed; the previous run's cleanup goes first, then the body.
PreviewEffect(newFile) ==
  IF newFile = imageFile
    THEN UNCHANGED <<previewUrl, effectUrl, created, revoked>>
    ELSE /\ revoked' = EffectCleanup(effectUrl, revoked)
         /\ IF newFile # NoFile
              THEN /\ created' = created + 1
                   /\ previewUrl' = created + 1
                   /\ effectUrl' = created + 1
              ELSE /\ created' = created
                   /\ previewUrl' = NoUrl
                   /\ effectUrl' = NoUrl

\* ---------------------------------------------------- handleFileChange
\* a handler that forgets setResult(null)
HandleFileChange_keepsResult(file) ==
  /\ mounted
  /\ file \in Files
  /\ file = imageFile \/ created < MaxUrls
  /\ error' = Null
  /\ imageFile' = file
  /\ PreviewEffect(file)
  /\ lastEvent' = Event("change", file)
  /\ UNCHANGED <<result, resultFile, loading, mounted, inflight, lastDone>>

\* a change event whose files[0] is `file`
HandleFileChange(file) ==
  /\ mounted
  /\ file \in Files
  /\ file = imageFile \/ created < MaxUrls
  /\ error' = Null
  /\ imageFile' = file
  /\ result' = Null
  /\ resultFile' = NoFile
  /\ PreviewEffect(file)
  /\ lastEvent' = Event("change", file)
  /\ UNCHANGED <<loading, mounted, inflight, lastDone>>

\* a change event with an empty file list
HandleFileChangeEmpty ==
  /\ mounted
  /\ error' = Null
  /\ lastEvent' = Event("changeEmpty", NoFile)
  /\ UNCHANGED <<imageFile, previewUrl, result, loading, mounted, effectUrl,
                 created, revoked, inflight, resultFile, lastDone>>

\* ------------------------------------------------------- handleAnalyze
\* a handler without the `if (!imageFile)` early return
HandleAnalyze_noGuard ==
  /\ Len(inflight) < MaxInFlight
  /\ loading' = TRUE
  /\ error' = Null
  /\ result' = Null
  /\ resultFile' = NoFile
  /\ inflight' = Append(inflight,
       [file |-> imageFile, pc |-> "encode", base64 |-> Null,
        encodes |-> 1, calls |-> 0])
  /\ lastEvent' = Event("analyze", imageFile)
  /\ UNCHANGED <<imageFile, previewUrl, mounted, effectUrl, created,
                 revoked, lastDone>>

\* the synchronous part of handleAnalyze, up to the first await
HandleAnalyze ==
  IF imageFile = NoFile
    THEN /\ error' = Some(ValidationMessage)
         /\ lastEvent' = Event("analyzeNoFile", NoFile)
         /\ UNCHANGED <<imageFile, previewUrl, result, loading, mounted,
                        effectUrl, created, revoked, inflight, resultFile,
                        lastDone>>
    ELSE /\ Len(inflight) < MaxInFlight
         /\ loading' = TRUE
         /\ error' = Null
         /\ result' = Null
         /\ resultFile' = NoFile
         /\ inflight' = Append(inflight,
              [file |-> imageFile, pc |-> "encode", base64 |-> Null,
               encodes |-> 1, calls |-> 0])
         /\ lastEvent' = Event("analyze", imageFile)
         /\ UNCHANGED <<imageFile, previewUrl, mounted, effectUrl, created,
                        revoked, lastDone>>

\* a button that stays enabled while loading
ButtonDisabled_ignoresLoading == imageFile = NoFile

\* <Button disabled={loading || !imageFile}>
ButtonDisabled == loading \/ imageFile = NoFile

\* a click on the Analyze button
ClickAnalyze ==
  /\ mounted
  /\ ~ButtonDisabled
  /\ HandleAnalyze

\* handleAnalyze invoked as a function, whatever the button shows
CallAnalyze ==
  /\ mounted
  /\ HandleAnalyze

Remove(s, i) == SubSeq(s, 1, i - 1) \o SubSeq(s, i + 1, Len(s))

\* err.message ?? "Error analyzing image": an empty message is kept
CatchMessage_nullish(err) ==
  LET message == IF err.kind = "string" THEN Null ELSE err.message
  IN  IF message # Null THEN message[1] ELSE GenericMessage

\* err.message || "Error analyzing image"
CatchMessage(err) ==
  LET message == IF err.kind = "string" THEN Null ELSE err.message
  IN  IF Truthy(message) THEN message[1] ELSE GenericMessage

\* a catch block with no finally: loading is never cleared on failure
Fail_noFinally(i, err) ==
  /\ error' = Some(CatchMessage(err))
  /\ inflight' = Remove(inflight, i)
  /\ lastDone' = Some([encodes |-> inflight[i].encodes,
                       calls |-> inflight[i].calls,
                       encoded |-> inflight[i].base64 # Null,
                       outcome |-> "error", err |-> Some(err)])
  /\ UNCHANGED <<imageFile, previewUrl, result, loading, mounted, effectUrl,
                 created, revoked, resultFile>>

\* catch (err) { setError(...) } finally { setLoading(false) }
Fail(i, err) ==
  /\ error' = Some(CatchMessage(err))
  /\ loading' = FALSE
  /\ inflight' = Remove(inflight, i)
  /\ lastDone' = Some([encodes |-> inflight[i].encodes,
                       calls |-> inflight[i].calls,
                       encoded |-> inflight[i].base64 # Null,
                       outcome |-> "error", err |-> Some(err)])
  /\ UNCHANGED <<imageFile, previewUrl, result, mounted, effectUrl, created,
                 revoked, resultFile>>

\* reader.onloadend: the encode resolves and analyzeImage(base64) is issued
ReadResolve(i) ==
  /\ i \in 1..Len(inflight)
  /\ inflight[i].pc = "encode"
  /\ inflight' = [inflight EXCEPT ![i].pc = "call",
                                  ![i].base64 = Some(DataUrl(inflight[i].file)),
                                  ![i].calls = @ + 1]
  /\ lastEvent' = Event("readResolve", inflight[i].file)
  /\ UNCHANGED <<imageFile, previewUrl, result, loading, error, mounted,
                 effectUrl, created, revoked, resultFile, lastDone>>

\* a read failure that falls through to the network call
ReadReject_thenCall(i) ==
  /\ i \in 1..Len(inflight)
  /\ inflight[i].pc = "encode"
  /\ inflight' = [inflight EXCEPT ![i].pc = "call", ![i].calls = @ + 1]
  /\ lastEvent' = Event("readReject", inflight[i].file)
  /\ UNCHANGED <<imageFile, previewUrl, result, loading, error, mounted,
                 effectUrl, created, revoked, resultFile, lastDone>>

\* reader.onerror: the encode rejects and control goes to the catch block
ReadReject(i) ==
  /\ i \in 1..Len(inflight)
  /\ inflight[i].pc = "encode"
  /\ Fail(i, ReadError)
  /\ lastEvent' = Event("readReject", inflight[i].file)

\* analyzeImage resolves: the response is copied field by field and stored
ApiResolve(i, response) ==
  /\ i \in 1..Len(inflight)
  /\ inflight[i].pc = "call"
  /\ response \in AnalyzeImageResolves
  /\ result' = Some([success |-> response.success,
                     accidentDetected |-> response.accidentDetected,
                     detection |-> response.detection,
                     processedImage |-> response.processedImage])
  /\ resultFile' = inflight[i].file
  /\ loading' = FALSE
  /\ inflight' = Remove(inflight, i)
  /\ lastDone' = Some([encodes |-> inflight[i].encodes,
                       calls |-> inflight[i].calls,
                       encoded |-> inflight[i].base64 # Null,
                       outcome |-> "result", err |-> Null])
  /\ lastEvent' = Event("apiResolve", inflight[i].file)
  /\ UNCHANGED <<imageFile, previewUrl, error, mounted, effectUrl, created,
                 revoked>>

\* analyzeImage rejects
ApiReject(i, err) ==
  /\ i \in 1..Len(inflight)
  /\ inflight[i].pc = "call"
  /\ err \in ApiErrors
  /\ Fail(i, err)
  /\ lastEvent' = Event("apiReject", inflight[i].file)

\* ------------------------------------------------------------- unmount
\* React runs the pending effect cleanup when the component is torn down
Unmount ==
  /\ mounted
  /\ mounted' = FALSE
  /\ revoked' = EffectCleanup(effectUrl, revoked)
  /\ effectUrl' = NoUrl
  /\ lastEvent' = Event("unmount", NoFile)
  /\ UNCHANGED <<imageFile, previewUrl, result, loading, error, created,
                 inflight, resultFile, lastDone>>

\* --------------------------------------------------------------- render
\* (confidence * 100).toFixed(1): percent with one decimal digit
ToFixed1(confidence) ==
  [whole |-> confidence \div 10, tenth |-> confidence % 10]

\* a summary whose detection block ignores accidentDetected
RenderSummary_blockIgnoresAccident(r) ==
  [accident |-> IF r.accidentDetected THEN "Yes" ELSE "No",
   block |->
     IF r.detection # Null
       THEN Some([type |-> r.detection[1].class,
                  confidence |-> ToFixed1(r.detection[1].confidence),
                  severity |-> IF Truthy(r.detection[1].severity)
                                 THEN r.detection[1].severity[1] ELSE "N/A"])
       ELSE Null,
   annotated |-> IF Truthy(r.processedImage) THEN r.processedImage ELSE Null]

\* the {result && (...)} block: what the summary shows for a stored result
RenderSummary(r) ==
  [accident |-> IF r.accidentDetected THEN "Yes" ELSE "No",
   block |->
     IF r.accidentDetected /\ r.detection # Null
       THEN Some([type |-> r.detection[1].class,
                  confidence |-> ToFixed1(r.detection[1].confidence),
                  severity |-> IF Truthy(r.detection[1].severity)
                                 THEN r.detection[1].severity[1] ELSE "N/A"])
       ELSE Null,
   annotated |-> IF Truthy(r.processedImage) THEN r.processedImage ELSE Null]

\* what the component returns for the current state
View ==
  [preview |-> previewUrl,
   disabled |-> ButtonDisabled,
   label |-> IF loading THEN "Analyzing..." ELSE "Analyze Image",
   alert |-> IF Truthy(error) THEN error ELSE Null,
   summary |-> IF result # Null THEN Some(RenderSummary(result[1])) ELSE Null]

\* ------------------------------------------------------ specifications
Completion ==
  \E i \in 1..MaxInFlight :
    \/ ReadResolve(i)
    \/ ReadReject(i)
    \/ \E response \in AnalyzeImageResolves : ApiResolve(i, response)
    \/ \E err \in ApiErrors : ApiReject(i, err)

\* the view driven through its controls
Next ==
  \/ \E file \in Files : HandleFileChange(file)
  \/ HandleFileChangeEmpty
  \/ ClickAnalyze
  \/ Completion
  \/ Unmount

Spec == Init /\ [][Next]_vars

\* the same, with handleAnalyze also callable directly
NextDirect ==
  \/ Next
  \/ CallAnalyze

SpecDirect == Init /\ [][NextDirect]_vars

\* the file read and the API call each eventually settle
FairSpec == Spec /\ WF_vars(Completion)

\* ---------------------------------------------------------------- claims
\* the error a finished call was rejected with
DoneErr == lastDone[1].err[1]
\* that error carries a non-empty message of its own
HasOwnMessage(err) ==
  err.kind = "Error" /\ err.message # Null /\ err.message # Some("")

\* C1: whenever an analysis attempt has just failed (the file read
\* rejected, or the API rejected with or without a message), error holds a
\* non-empty message (the error's own message when it has one, the generic
\* message otherwise), loading is false and result is null.
C1_FailureSetsErrorClearsLoading ==
  lastEvent.op \in {"readReject", "apiReject"} =>
    /\ error # Null
    /\ error[1] # ""
    /\ HasOwnMessage(DoneErr) => error = DoneErr.message
    /\ ~HasOwnMessage(DoneErr) => error = Some(GenericMessage)
    /\ loading = FALSE
    /\ result = Null

C1_Witness ==
  /\ lastEvent.op = "apiReject"
  /\ DoneErr.message = Null
  /\ error = Some(GenericMessage)
  /\ ~loading

\* C2: a response whose success field is false is treated as an error: it
\* is never stored as the result or rendered as a summary, and an error
\* message is shown instead.
C2_FailureIndicationIsError ==
  lastEvent.op = "apiResolve" =>
    \/ View.summary # Null /\ result[1].success
    \/ View.summary = Null /\ View.alert # Null

\* C3: handleAnalyze with no file selected starts no encode and no
\* analyzeImage call; it sets the validation message, loading stays false
\* and result is unchanged.
C3_NoFileNoRequest ==
  [][(imageFile = NoFile /\ lastEvent'.op \in {"analyze", "analyzeNoFile"}) =>
       /\ inflight' = inflight
       /\ error' = Some(ValidationMessage)
       /\ loading = FALSE /\ loading' = FALSE
       /\ result' = result]_vars

C3_Witness ==
  /\ lastEvent.op = "analyzeNoFile"
  /\ error = Some(ValidationMessage)
  /\ inflight = <<>>

\* C4: no object URL is ever revoked twice; while the view is mounted every
\* created URL except the one in use has been revoked exactly once and the
\* one in use not at all; after unmount every created URL has been revoked
\* exactly once.
C4_UrlsRevokedExactlyOnce ==
  /\ \A u \in 1..MaxUrls : u > created => revoked[u] = 0
  /\ \A u \in 1..created :
       revoked[u] = IF mounted /\ u = effectUrl THEN 0 ELSE 1

C4_Witness ==
  /\ ~mounted
  /\ created >= 2
  /\ \A u \in 1..created : revoked[u] = 1

\* C5: driven through the button, at most one handleAnalyze call is
\* suspended at any time, and loading is true for as long as it is.
C5_AtMostOneInFlight ==
  /\ Len(inflight) <= 1
  /\ Len(inflight) = 1 => loading /\ View.disabled

C5_Witness ==
  /\ Len(inflight) = 1
  /\ lastEvent.op = "change"
  /\ imageFile # inflight[1].file

\* C6: every submit encodes exactly once and calls analyzeImage at most
\* once; the call is issued only after the encode resolved, with the encoded
\* file, and never after the encode failed.
C6_OneEncodeThenAtMostOneCall ==
  /\ \A i \in 1..Len(inflight) :
       /\ inflight[i].encodes = 1
       /\ inflight[i].pc = "encode" =>
            inflight[i].calls = 0 /\ inflight[i].base64 = Null
       /\ inflight[i].pc = "call" =>
            /\ inflight[i].calls = 1
            /\ inflight[i].base64 = Some(DataUrl(inflight[i].file))
  /\ lastDone # Null =>
       /\ lastDone[1].encodes = 1
       /\ lastDone[1].calls <= 1
       /\ lastDone[1].calls = 1 <=> lastDone[1].encoded
       /\ lastDone[1].outcome = "result" => lastDone[1].calls = 1

C6_Witness ==
  /\ lastEvent.op = "readReject"
  /\ lastDone[1].calls = 0
  /\ lastDone[1].encodes = 1

\* C7: a change event carrying a file sets error and result to null and
\* selects that file, whatever the state before (also while loading); a
\* change event carrying no file clears error and leaves the selected file
\* and the result as they were.
C7_FileChangeFrame ==
  [][/\ lastEvent'.op = "change" =>
          /\ error' = Null
          /\ result' = Null
          /\ imageFile' = lastEvent'.file
          /\ loading' = loading
     /\ lastEvent'.op = "changeEmpty" =>
          /\ error' = Null
          /\ imageFile' = imageFile
          /\ result' = result]_vars

C7_Witness ==
  /\ lastEvent.op = "change"
  /\ loading
  /\ imageFile = lastEvent.file
  /\ imageFile # inflight[1].file
  /\ error = Null /\ result = Null

\* C8: every state with loading = true is eventually followed by a state
\* with loading = false in which exactly one of result and error is set,
\* given that the file read and the API call each eventually settle.
C8_LoadingEndsWithResultOrError ==
  loading ~> (~loading /\ ((result # Null) # (error # Null)))

C8_Witness ==
  /\ ~loading
  /\ lastEvent.op = "apiResolve"
  /\ result # Null
  /\ error = Null

\* C9 as stated: Yes iff accidentDetected; the detection block iff
\* accidentDetected and detection is present; "N/A" as severity exactly when
\* severity is absent; the annotated image iff processedImage is present.
C9_Original ==
  result # Null =>
    LET r == result[1]
        v == View.summary[1]
    IN  /\ v.accident = "Yes" <=> r.accidentDetected
        /\ v.block # Null <=> (r.accidentDetected /\ r.detection # Null)
        /\ v.block # Null =>
             (v.block[1].severity = "N/A" <=> r.detection[1].severity = Null)
        /\ v.annotated # Null <=> r.processedImage # Null

\* C9 amended: Yes iff accidentDetected; the detection block iff
\* accidentDetected and detection is present; in that block the severity is
\* "N/A" when severity is absent or the empty string and severity's own text
\* otherwise; the annotated image iff processedImage is present and not
\* the empty string.
C9_RenderSummary ==
  result # Null =>
    LET r == result[1]
        v == View.summary[1]
    IN  /\ v.accident = "Yes" <=> r.accidentDetected
        /\ v.accident = "No" <=> ~r.accidentDetected
        /\ v.block # Null <=> (r.accidentDetected /\ r.detection # Null)
        /\ v.block # Null =>
             /\ v.block[1].type = r.detection[1].class
             /\ r.detection[1].severity \in {Null, Some("")} =>
                  v.block[1].severity = "N/A"
             /\ r.detection[1].severity \notin {Null, Some("")} =>
                  v.block[1].severity = r.detection[1].severity[1]
        /\ v.annotated # Null <=> r.processedImage \notin {Null, Some("")}

C9_Witness ==
  /\ result # Null
  /\ ~result[1].accidentDetected
  /\ result[1].detection # Null
  /\ View.summary[1].block = Null
  /\ View.summary[1].accident = "No"

\* C10: whenever a result is displayed it was produced by analysing the
\* currently selected file.
C10_ResultIsOfSelectedFile ==
  View.summary # Null => resultFile = imageFile

====
